---- MODULE Spec2Model ----
(***************************************************************************)
(* The deployment scripts of cloudflare-tunnel-example as state machines:  *)
(*   scripts/deploy.ts            (Deploy pipeline, the first listing)     *)
(*   scripts/update-config.ts     (configuration rewrite)                  *)
(*   scripts/verify-endpoints.ts  (Verification Engine)                    *)
(*   scripts/diagnose.ts          (Diagnostics Reporter)                   *)
(* The world the scripts act on is the local file system (cloudflared/,    *)
(* cloudflared/credentials/, cert.pem, config.yml, .tunnel-config.json),   *)
(* the tunnel registry, the DNS record of halibut.cc and the container     *)
(* runtime.  External commands are nondeterministic in their outcome.      *)
(***************************************************************************)
EXTENDS Integers, Sequences, FiniteSets, TLC

\* ------------------------------------------------------------------ bounds
MaxRuns == 2         \* Deploy runs in succession on the same world
MaxCommands == 3     \* commands handed to one runCommandSequence call

\* --------------------------------------------------------------- constants
ExpectedName == "cloudflare-tunnel-example"
TunnelNames == {ExpectedName, "cloudflare-tunnel-example-old", "other"}

\* Tunnel identifiers.  uA, uB, uC stand for 36-character UUIDs; "c" is the
\* one-character hex string that /Created tunnel ([a-f0-9-]+)/ captures from
\* "Created tunnel cloudflare-tunnel-example with id <uuid>".
\* "notes" is the name of a *.json file that is no credential file, and
\* "u-" a string of 36 hyphens.
UUIDs == {"uA", "uB", "uC"}
InitUUIDs == {"uA", "uB"}
NoId == "none"
Ids == UUIDs \cup {"c", "notes", "u-"}

\* the length of an id string, and whether all its characters are in [a-f0-9-]
idLength(id) ==
  CASE id \in UUIDs -> 36
    [] id = "u-" -> 36
    [] id = "c" -> 1
    [] id = "notes" -> 5
    [] OTHER -> 0
idCharsOK(id) == id # "notes"

\* isValidTunnelId / the format test of update-config: /^[a-f0-9-]{36}$/
isValidTunnelId(id) == idLength(id) = 36 /\ idCharsOK(id)

\* File names of credential files, <id>.json, and the inverse done by
\* entry.name.replace(".json", "").
FileNameOf(id) ==
  CASE id = "uA" -> "uA.json"
    [] id = "uB" -> "uB.json"
    [] id = "uC" -> "uC.json"
    [] id = "notes" -> "notes.json"
    [] id = "u-" -> "u-.json"
    [] OTHER -> "c.json"
JsonFiles == {FileNameOf(id) : id \in UUIDs \cup {"notes"}}
stripJson(name) == CHOOSE id \in Ids : FileNameOf(id) = name

\* File contents are "k1" or "k2"; NoFile is the absence of the file.
NoFile == "absent"

\* config.yml as the regular expressions of the scripts see it:
\*   tunnel   what /tunnel:\s*([a-f0-9-]+)/ captures at its first match, NoId
\*            when it does not match; for `tunnel: cloudflare-tunnel-example`
\*            that is "c"
\*   tail     the text that follows that match
\*   credfile the credentials-file: scalar, NoPath when there is no such line
\*   cftail   text that follows the credentials path on its line
\*   rest     all the other lines (the ingress rules)
NoPath == "nopath"
NameTail == "loudflare-tunnel-example"
Config(t, tl, cf) ==
  [tunnel |-> t, tail |-> tl, credfile |-> cf, cftail |-> "", rest |-> "ingress-1"]
credentialsPath(id) ==
  CASE id = "uA" -> "/etc/cloudflared/credentials/uA.json"
    [] id = "uB" -> "/etc/cloudflared/credentials/uB.json"
    [] id = "uC" -> "/etc/cloudflared/credentials/uC.json"
    [] id = "notes" -> "/etc/cloudflared/credentials/notes.json"
    [] id = "u-" -> "/etc/cloudflared/credentials/u-.json"
    [] OTHER -> "/etc/cloudflared/credentials/c.json"

\* ------------------------------------------------------------------- state
VARIABLES
  rootFiles,     \* *.json files of cloudflared/        : file name -> content
  credFiles,     \* *.json files of cloudflared/credentials/
  credDir,       \* cloudflared/credentials exists
  cert,          \* cloudflared/cert.pem exists
  registry,      \* rows of `tunnel list`, in output order: [id, name]
  config,        \* config.yml: [tunnel, tail, credfile, cftail, rest]
  pointer,       \* .tunnel-config.json: activeTunnelId, or NoId when absent
  dnsRouted,     \* a DNS record for halibut.cc exists
  imageBuilt,    \* the application image exists
  running,       \* names of the running containers
  pc,            \* position of the running script
  exitCode,      \* exit code of the script once pc = "exit"
  tunnelId, activeTunnelId,   \* locals of deploy main (movedTunnelId of
                              \* step 1 is never read and is not kept)
  log,           \* names of the actions invoked in this run, in order
  last,          \* the last action's outcome: [act, res, ok]
  clean,         \* no action of this run has failed so far
  run,           \* number of the Deploy run on this world
  runStart,      \* the world when the run started
  results,       \* verifyDeployment: results of the endpoints tested so far
  requests,      \* verifyDeployment: fetches issued, per endpoint
  diag,          \* diagnose: the DiagnosticResult being built
  args,          \* destroy: the parsed flags [full, keepTunnel, keepImages, help]
  stopSuccess, tunnelRemoved,   \* locals of destroy main
  status,        \* destroy: the status summary printed at the end
  commands,      \* runCommandSequence: the commands given
  seqResults,    \* runCommandSequence: results, the CommandResults pushed so far
  spawns         \* runCommandSequence: processes spawned, per command

world == <<rootFiles, credFiles, credDir, cert, registry, config, pointer,
           dnsRouted, imageBuilt, running>>
locals == <<tunnelId, activeTunnelId>>
vars == <<rootFiles, credFiles, credDir, cert, registry, config, pointer,
          dnsRouted, imageBuilt, running, pc, exitCode,
          tunnelId, activeTunnelId, log, last, clean, run, runStart, results,
          requests,
          diag, args, stopSuccess, tunnelRemoved, status, commands, seqResults, spawns>>
deployVars == <<pc, exitCode, tunnelId, activeTunnelId, log,
                last, clean, run, runStart>>
verifyVars == <<results, requests>>
destroyVars == <<args, stopSuccess, tunnelRemoved, status>>
commandVars == <<commands, seqResults, spawns>>

\* ------------------------------------------------------------ pure helpers
Perms(S) ==
  {f \in [1..Cardinality(S) -> S] : \A i, j \in 1..Cardinality(S) : f[i] = f[j] => i = j}

Present(dir) == {n \in JsonFiles : dir[n] # NoFile}

NoAction == [act |-> "none", res |-> "none", ok |-> TRUE]

\* checkFileExists(path): Deno.stat succeeds
checkFileExists(dir, name) == name \in DOMAIN dir /\ dir[name] # NoFile

\* the test `if (!targetExists)` that guards Deno.rename
shouldMoveAlways(cred, name) == TRUE
shouldMove(cred, name) == ~checkFileExists(cred, name)

\* The for-await loop of ensureCredentialsInCorrectLocation over the *.json
\* entries of cloudflared/ in readDir order `order`.  The rename of entry
\* number failAt throws (0: none does); the catch ends the loop with a warning.
RECURSIVE relocateLoop(_, _, _, _, _, _)
relocateLoop(root, cred, moved, order, i, failAt) ==
  IF i > Len(order)
  THEN [root |-> root, cred |-> cred, moved |-> moved, warned |-> FALSE]
  ELSE LET name == order[i] IN
       IF shouldMove(cred, name)
       THEN IF i = failAt
            THEN [root |-> root, cred |-> cred, moved |-> moved, warned |-> TRUE]
            ELSE relocateLoop([root EXCEPT ![name] = NoFile],
                              [cred EXCEPT ![name] = root[name]],
                              stripJson(name), order, i + 1, failAt)
       ELSE relocateLoop(root, cred, moved, order, i + 1, failAt)

\* the catch around the loop only prints a warning
relocateFatalStrict(warned) == warned
relocateFatal(warned) == FALSE

relocateRes(r) ==
  IF r.warned THEN "warned" ELSE IF r.moved # NoId THEN "moved" ELSE "nothing"

\* line.includes("cloudflare-tunnel-example") and
\* line.match(/^([a-f0-9-]+)\s+cloudflare-tunnel-example/): the row's name
\* starts with the expected name.
lineMatches(row) == row.name \in {ExpectedName, "cloudflare-tunnel-example-old"}

\* the first matching line of the list output, or NoId
RECURSIVE firstMatchExact(_, _)
firstMatchExact(rows, i) ==
  IF i > Len(rows) THEN NoId
  ELSE IF rows[i].name = ExpectedName THEN rows[i].id ELSE firstMatchExact(rows, i + 1)

RECURSIVE firstMatch(_, _)
firstMatch(rows, i) ==
  IF i > Len(rows) THEN NoId
  ELSE IF lineMatches(rows[i]) THEN rows[i].id ELSE firstMatch(rows, i + 1)

\* createResult.output.match(/Created tunnel ([a-f0-9-]+)/) on the three
\* shapes of output: "Created tunnel <id>", "Created tunnel
\* cloudflare-tunnel-example with id <id>", and text without the phrase.
parseCreated(shape, id) ==
  CASE shape = "bare" -> id
    [] shape = "named" -> "c"
    [] OTHER -> NoId

\* `if (!tunnelId) { ... Deno.exit(1) }` after handleTunnelCreation
tunnelFatalNever(id) == FALSE
tunnelFatal(id) == id = NoId

\* `if (certExists) return true`: the login command runs only without cert.pem
loginNeededAlways(certExists) == TRUE
loginNeededNever(certExists) == FALSE
loginNeeded(certExists) == ~certExists

\* `if (!loginSuccess) { ... Deno.exit(1) }`
loginFatalNever(ok) == FALSE
loginFatal(ok) == ~ok

\* result.success || (result.error?.includes("already exists") ?? false)
dnsSuccessStrict(res) == res = "ok"
dnsSuccess(res) == res = "ok" \/ res = "already exists"

\* `if (!configSuccess)` only prints a warning; `if (!dnsSuccess)` likewise
configFatalStrict(ok) == ~ok
configFatal(ok) == FALSE
dnsFatal(ok) == FALSE

\* `if (!buildResult.success) return false` and `if (!deploySuccess) exit(1)`
buildFatalNever(ok) == FALSE
buildFatal(ok) == ~ok
upFatal(ok) == ~ok

\* const activeTunnelId = newMovedId || tunnelId
selectActive(newMovedId, id) == IF newMovedId # NoId THEN newMovedId ELSE id

\* main returns after the verification step whatever verifySuccess is
deployExitCodeStrict(verifySuccess) == IF verifySuccess THEN 0 ELSE 1
deployExitCode(verifySuccess) == 0

\* ------------------------------------------------------- update-config.ts
Result(ok, cfg, ptr) == [ok |-> ok, config |-> cfg, pointer |-> ptr]

getCredentialTunnelIds(cred) == {stripJson(n) : n \in Present(cred)}

\* updateConfig(tunnelId).  io names the file operation that throws:
\* "readFail", "writeConfigFail", "writePointerFail", or "ok" for none.
\* the replacements of updateConfig: the matched tunnel id, then either the
\* credentials-file scalar up to its end of line, or, when there is no such
\* line, the (new) tunnel id again by the id and a credentials-file line, which
\* puts what followed the id behind the credentials path
substitute(id, cfg) ==
  IF cfg.credfile # NoPath
  THEN [cfg EXCEPT !.tunnel = id, !.credfile = credentialsPath(id), !.cftail = ""]
  ELSE [cfg EXCEPT !.tunnel = id, !.tail = "", !.credfile = credentialsPath(id),
                   !.cftail = cfg.tail]

updateConfigRegenerate(id, cfg, ptr, io) ==
  IF io = "readFail" THEN Result(FALSE, cfg, ptr)
  ELSE IF cfg.tunnel = NoId THEN Result(FALSE, cfg, ptr)
  ELSE IF cfg.tunnel = id THEN Result(TRUE, cfg, ptr)
  ELSE LET new == Config(id, "", credentialsPath(id)) IN
       IF io = "writeConfigFail" THEN Result(FALSE, cfg, ptr)
       ELSE IF io = "writePointerFail" THEN Result(FALSE, new, ptr)
       ELSE Result(TRUE, new, id)
updateConfig(id, cfg, ptr, io) ==
  IF io = "readFail" THEN Result(FALSE, cfg, ptr)
  ELSE IF cfg.tunnel = NoId THEN Result(FALSE, cfg, ptr)
  ELSE IF cfg.tunnel = id THEN Result(TRUE, cfg, ptr)
  ELSE LET new == substitute(id, cfg) IN
       IF io = "writeConfigFail" THEN Result(FALSE, cfg, ptr)
       ELSE IF io = "writePointerFail" THEN Result(FALSE, new, ptr)
       ELSE Result(TRUE, new, id)

\* main of update-config.ts; arg = NoId when no argument is given.  ok is
\* exit code 0.
updateConfigMainAny(arg, cred, cfg, ptr, io) ==
  LET ids == getCredentialTunnelIds(cred) IN
  IF arg = NoId /\ ids = {} THEN Result(FALSE, cfg, ptr)
  ELSE LET id == IF arg = NoId THEN CHOOSE x \in ids : TRUE ELSE arg IN
       IF ~isValidTunnelId(id) THEN Result(FALSE, cfg, ptr)
       ELSE IF ~checkFileExists(cred, FileNameOf(id)) THEN Result(FALSE, cfg, ptr)
       ELSE updateConfig(id, cfg, ptr, io)
updateConfigMainUnchecked(arg, cred, cfg, ptr, io) ==
  LET ids == getCredentialTunnelIds(cred) IN
  IF arg = NoId /\ Cardinality(ids) # 1 THEN Result(FALSE, cfg, ptr)
  ELSE LET id == IF arg = NoId THEN CHOOSE x \in ids : TRUE ELSE arg IN
       updateConfig(id, cfg, ptr, io)
updateConfigMain(arg, cred, cfg, ptr, io) ==
  LET ids == getCredentialTunnelIds(cred) IN
  IF arg = NoId /\ Cardinality(ids) # 1 THEN Result(FALSE, cfg, ptr)
  ELSE LET id == IF arg = NoId THEN CHOOSE x \in ids : TRUE ELSE arg IN
       IF ~isValidTunnelId(id) THEN Result(FALSE, cfg, ptr)
       ELSE IF ~checkFileExists(cred, FileNameOf(id)) THEN Result(FALSE, cfg, ptr)
       ELSE updateConfig(id, cfg, ptr, io)

IOFaults == {"ok", "readFail", "writeConfigFail", "writePointerFail"}

\* ---------------------------------------------------- verify-endpoints.ts
ExpectedStatus == 200
endpoints == <<"Main Application", "Health Check">>

\* What one fetch can give: a response (status, whether the body holds the
\* expected text) or a thrown error (its name, and which of the substrings the
\* catch clause looks for its message contains).
Response(st, c) == [kind |-> "response", status |-> st, content |-> c]
FetchError(n, m) == [kind |-> "error", name |-> n, message |-> m]

Responses ==
  {Response(200, TRUE), Response(200, FALSE), Response(500, TRUE),
   FetchError("AbortError", {}),
   FetchError("TypeError", {"ENOTFOUND"}),
   FetchError("TypeError", {"ECONNREFUSED"}),
   FetchError("TypeError", {})}

\* the fetches of a verify-endpoints run: also a wrong status with a body
\* that lacks the text, and errors that fit more than one test of the catch
Fetches ==
  Responses \cup
  {Response(500, FALSE),
   FetchError("AbortError", {"DNS"}),
   FetchError("TypeError", {"DNS"}),
   FetchError("TypeError", {"ENOTFOUND", "ECONNREFUSED"})}

\* classification with the content test before the status test
classifyContentFirst(resp) ==
  IF resp.kind = "response"
  THEN IF ~resp.content THEN "missing-content"
       ELSE IF resp.status # ExpectedStatus THEN "wrong-status"
       ELSE "success"
  ELSE IF resp.name = "AbortError" THEN "timeout"
  ELSE IF "ENOTFOUND" \in resp.message \/ "DNS" \in resp.message THEN "dns-unresolvable"
  ELSE IF "ECONNREFUSED" \in resp.message THEN "connection-refused"
  ELSE "other-error"

\* the classification testEndpoint prints
classify(resp) ==
  IF resp.kind = "response"
  THEN IF resp.status # ExpectedStatus THEN "wrong-status"
       ELSE IF ~resp.content THEN "missing-content"
       ELSE "success"
  ELSE IF resp.name = "AbortError" THEN "timeout"
  ELSE IF "ENOTFOUND" \in resp.message \/ "DNS" \in resp.message THEN "dns-unresolvable"
  ELSE IF "ECONNREFUSED" \in resp.message THEN "connection-refused"
  ELSE "other-error"

\* testEndpoint(endpoint): true on the success path only
testEndpointLenient(resp) == classify(resp) \in {"success", "timeout"}
testEndpoint(resp) == classify(resp) = "success"

\* successCount === totalCount
allSucceeded(rs) == \A i \in 1..Len(rs) : rs[i]

\* exit code of verifyDeployment: Deno.exit(1) unless every result is true
verifyExitAny(rs) == IF \E i \in 1..Len(rs) : rs[i] THEN 0 ELSE 1
verifyExit(rs) == IF allSucceeded(rs) THEN 0 ELSE 1

\* exit code of the script: prerequisites first, then verifyDeployment
verifyScriptExit(prereqsOK, resps) ==
  IF ~prereqsOK THEN 1
  ELSE verifyExit([i \in 1..Len(endpoints) |-> testEndpoint(resps[i])])

\* ------------------------------------------------------------- the world
\* the variables of destroy.ts and of lib/command.ts while another script runs
NoArgs == [full |-> FALSE, keepTunnel |-> FALSE, keepImages |-> FALSE, help |-> FALSE]
NoStatus == [printed |-> FALSE]
NoDestroy ==
  /\ args = NoArgs /\ stopSuccess = FALSE /\ tunnelRemoved = FALSE /\ status = NoStatus
NoCommands == commands = <<>> /\ seqResults = <<>> /\ spawns = <<>>

NoDiag == [tunnels |-> <<>>, configTunnelId |-> NoId, activeTunnelId |-> NoId,
           dns |-> FALSE, containersRunning |-> FALSE, issues |-> <<>>,
           recommendations |-> <<>>]

\* Registries of an initial state: rows with distinct ids; the name that
\* only extends the expected one appears in one-row registries.
Rows(n) == {r \in [1..n -> [id : InitUUIDs, name : TunnelNames]] :
              /\ \A i, j \in 1..n : r[i].id = r[j].id => i = j
              /\ n > 1 => \A i \in 1..n : r[i].name \in {ExpectedName, "other"}}
Registries == UNION {Rows(n) : n \in 0..Cardinality(InitUUIDs)}

matching(rows) == {i \in 1..Len(rows) : lineMatches(rows[i])}

\* Fully reconciled: certificate, one tunnel of the expected name (and no
\* other row the list parser takes for it) with its credentials in
\* credentials/, nothing left to relocate, config naming it, DNS routed,
\* both containers running.
Reconciled ==
  /\ cert /\ credDir
  /\ Present(rootFiles) = {}
  /\ Cardinality(matching(registry)) = 1
  /\ \A i \in matching(registry) :
       /\ registry[i].name = ExpectedName
       /\ checkFileExists(credFiles, FileNameOf(registry[i].id))
       /\ config = Config(registry[i].id, "", credentialsPath(registry[i].id))
  /\ dnsRouted /\ imageBuilt
  /\ {"cloudflare-tunnel-app", "cloudflare-tunnel"} \subseteq running

\* Clean slate: no certificate, no credential files, no tunnels, no DNS
\* record, no containers.
CleanSlate ==
  /\ ~cert
  /\ Present(rootFiles) = {} /\ Present(credFiles) = {}
  /\ registry = <<>>
  /\ ~dnsRouted /\ running = {}

Snapshot ==
  [reconciled |-> Reconciled, cleanSlate |-> CleanSlate,
   rootFiles |-> rootFiles, credFiles |-> credFiles,
   cert |-> cert, config |-> config, pointer |-> pointer]

InitWorld ==
  /\ rootFiles \in [JsonFiles -> {NoFile, "k2"}]
  /\ credFiles \in [JsonFiles -> {NoFile, "k1"}]
  /\ rootFiles["uC.json"] = NoFile /\ credFiles["uC.json"] = NoFile
  /\ credFiles["notes.json"] = NoFile
  /\ credDir \in BOOLEAN
  /\ (Present(credFiles) # {} => credDir)
  /\ cert \in BOOLEAN
  /\ registry \in Registries
  /\ \E t \in {"uA", NoId} :
       config = Config(t, "", IF t = NoId THEN NoPath ELSE credentialsPath(t))
  /\ pointer = config.tunnel
  /\ \E up \in BOOLEAN :
       /\ up => cert
       /\ dnsRouted = up /\ imageBuilt = up
       /\ running = IF up THEN {"cloudflare-tunnel-app", "cloudflare-tunnel"} ELSE {}

\* ------------------------------------------------------ deploy.ts: main
Exit(code) == pc' = "exit" /\ exitCode' = code

\* bookkeeping of one invoked action: its name, its raw result, and what the
\* handler made of it
Invoke(act, res, ok) ==
  /\ log' = Append(log, act)
  /\ last' = [act |-> act, res |-> res, ok |-> ok]
  /\ clean' = (clean /\ ok)

OkFail(ok) == IF ok THEN "ok" ELSE "fail"

\* ensureCredentialsInCorrectLocation, called at steps 1 and 4 of main.
\* A failing mkdir is not caught in the function: main's catch exits 1.
ensureCredentialsInCorrectLocation(here, next) ==
  /\ pc = here
  /\ \E mkdirOK \in BOOLEAN, order \in Perms(Present(rootFiles)) :
     \E failAt \in 0..Len(order) :
       IF ~credDir /\ ~mkdirOK
       THEN /\ Exit(1)
            /\ Invoke("relocate", "exception", FALSE)
            /\ UNCHANGED <<rootFiles, credFiles, credDir, locals>>
       ELSE LET r == relocateLoop(rootFiles, credFiles, NoId, order, 1, failAt) IN
            /\ rootFiles' = r.root
            /\ credFiles' = r.cred
            /\ credDir' = TRUE
            /\ Invoke("relocate", relocateRes(r), ~r.warned)
            /\ IF here = "reloc1"
               THEN UNCHANGED <<tunnelId, activeTunnelId>>
               ELSE /\ activeTunnelId' = selectActive(r.moved, tunnelId)
                    /\ UNCHANGED tunnelId
            /\ IF relocateFatal(r.warned) THEN Exit(1)
               ELSE pc' = next /\ UNCHANGED exitCode
  /\ UNCHANGED <<cert, registry, config, pointer, dnsRouted, imageBuilt, running,
                 run, runStart, verifyVars, diag, destroyVars, commandVars>>

Relocate1 == ensureCredentialsInCorrectLocation("reloc1", "login")
Relocate2 == ensureCredentialsInCorrectLocation("reloc2", "config")

\* handleTunnelLogin and the exit that follows it
handleTunnelLogin ==
  /\ pc = "login"
  /\ IF ~loginNeeded(cert)
     THEN pc' = "tunnel" /\ UNCHANGED <<cert, log, last, clean, exitCode>>
     ELSE \E ok \in BOOLEAN :
            /\ Invoke("login", OkFail(ok), ok)
            /\ cert' = (cert \/ ok)
            /\ IF loginFatal(ok) THEN Exit(1) ELSE pc' = "tunnel" /\ UNCHANGED exitCode
  /\ UNCHANGED <<rootFiles, credFiles, credDir, registry, config, pointer, dnsRouted,
                 imageBuilt, running, locals, run, runStart, verifyVars, diag, destroyVars, commandVars>>

\* handleTunnelCreation, first half: `tunnel list` and the search of its output
TunnelList ==
  /\ pc = "tunnel"
  /\ \E ok \in BOOLEAN :
       LET found == IF ok THEN firstMatch(registry, 1) ELSE NoId IN
       /\ Invoke("list", OkFail(ok), ok)
       /\ IF found # NoId
          THEN tunnelId' = found /\ pc' = "reloc2"
          ELSE tunnelId' = tunnelId /\ pc' = "create"
  /\ UNCHANGED <<world, exitCode, activeTunnelId, run, runStart, verifyVars, diag, destroyVars, commandVars>>

\* the id the registry gives a new tunnel: one that names no tunnel and no
\* file yet (none is left once uC is in use, and create then fails)
FreshIds ==
  {"uC"} \ ({registry[i].id : i \in 1..Len(registry)}
             \cup getCredentialTunnelIds(rootFiles) \cup getCredentialTunnelIds(credFiles))

\* handleTunnelCreation, second half: `tunnel create` and the exit of main
\* when no id came back.  A successful create registers a tunnel with a new id
\* and writes its credential file <id>.json into cloudflared/.
TunnelCreate ==
  /\ pc = "create"
  /\ \/ /\ Invoke("create", "fail", FALSE)
        /\ IF tunnelFatal(NoId) THEN Exit(1) ELSE pc' = "reloc2" /\ UNCHANGED exitCode
        /\ UNCHANGED <<registry, rootFiles, tunnelId>>
     \/ \E id \in FreshIds, shape \in {"bare", "named", "other"} :
          /\ registry' = Append(registry, [id |-> id, name |-> ExpectedName])
          /\ rootFiles' = [rootFiles EXCEPT ![FileNameOf(id)] = "k2"]
          /\ Invoke("create", "ok", TRUE)
          /\ tunnelId' = parseCreated(shape, id)
          /\ IF tunnelFatal(parseCreated(shape, id))
             THEN Exit(1) ELSE pc' = "reloc2" /\ UNCHANGED exitCode
  /\ UNCHANGED <<credFiles, credDir, cert, config, pointer, dnsRouted, imageBuilt,
                 running, activeTunnelId, run, runStart, verifyVars, diag, destroyVars, commandVars>>

\* updateTunnelConfig(activeTunnelId): update-config.ts run as a child process
updateTunnelConfig ==
  /\ pc = "config"
  /\ \E spawned \in BOOLEAN, io \in IOFaults :
       LET r == IF spawned
                THEN updateConfigMain(activeTunnelId, credFiles, config, pointer, io)
                ELSE Result(FALSE, config, pointer) IN
       /\ config' = r.config
       /\ pointer' = r.pointer
       /\ Invoke("update-config", OkFail(r.ok), r.ok)
       /\ IF configFatal(r.ok) THEN Exit(1) ELSE pc' = "dns" /\ UNCHANGED exitCode
  /\ UNCHANGED <<rootFiles, credFiles, credDir, cert, registry, dnsRouted, imageBuilt,
                 running, locals, run, runStart, verifyVars, diag, destroyVars, commandVars>>

\* handleDNSRouting(activeTunnelId): `tunnel route dns <id> halibut.cc`
handleDNSRouting ==
  /\ pc = "dns"
  /\ \E res \in {"ok", "already exists", "fail"} :
       /\ dnsRouted' = (dnsRouted \/ res = "ok")
       /\ Invoke("route-dns", res, dnsSuccess(res))
       /\ IF dnsFatal(dnsSuccess(res)) THEN Exit(1) ELSE pc' = "build" /\ UNCHANGED exitCode
  /\ UNCHANGED <<rootFiles, credFiles, credDir, cert, registry, config, pointer,
                 imageBuilt, running, locals, run, runStart, verifyVars, diag, destroyVars, commandVars>>

\* buildAndDeploy, first half: docker build
Build ==
  /\ pc = "build"
  /\ \E ok \in BOOLEAN :
       /\ imageBuilt' = (imageBuilt \/ ok)
       /\ Invoke("build", OkFail(ok), ok)
       /\ IF buildFatal(ok) THEN Exit(1) ELSE pc' = "up" /\ UNCHANGED exitCode
  /\ UNCHANGED <<rootFiles, credFiles, credDir, cert, registry, config, pointer,
                 dnsRouted, running, locals, run, runStart, verifyVars, diag, destroyVars, commandVars>>

\* buildAndDeploy, second half: docker compose up -d
Up ==
  /\ pc = "up"
  /\ \E ok \in BOOLEAN :
       /\ running' = IF ok THEN running \cup {"cloudflare-tunnel-app", "cloudflare-tunnel"}
                     ELSE running
       /\ Invoke("up", OkFail(ok), ok)
       /\ IF upFatal(ok) THEN Exit(1) ELSE pc' = "wait" /\ UNCHANGED exitCode
  /\ UNCHANGED <<rootFiles, credFiles, credDir, cert, registry, config, pointer,
                 dnsRouted, imageBuilt, locals, run, runStart, verifyVars, diag, destroyVars, commandVars>>

\* waitForServices (5 s, then docker compose ps, whose result changes
\* nothing) and the 10 s DNS wait
waitForServices ==
  /\ pc = "wait"
  /\ Invoke("settle", "ok", TRUE)
  /\ pc' = "verify"
  /\ UNCHANGED <<world, exitCode, locals, run, runStart, verifyVars, diag, destroyVars, commandVars>>

\* runCommand on verify-endpoints.ts: success is a spawned child with exit 0
VerifyOutcomes ==
  {spawned /\ verifyScriptExit(prereqsOK, resps) = 0 :
     spawned \in BOOLEAN, prereqsOK \in BOOLEAN,
     resps \in [1..Len(endpoints) -> Responses]}

\* verifyDeployment of deploy.ts (verify-endpoints.ts as a child process) and
\* the end of main
DeployVerify ==
  /\ pc = "verify"
  /\ \E verifySuccess \in VerifyOutcomes :
       /\ Invoke("verify", OkFail(verifySuccess), verifySuccess)
       /\ Exit(deployExitCode(verifySuccess))
  /\ UNCHANGED <<world, locals, run, runStart, verifyVars, diag, destroyVars, commandVars>>

\* Deploy is started again on the world left by a run in which every action
\* succeeded
DeployAgain ==
  /\ pc = "exit" /\ exitCode = 0 /\ clean
  /\ run < MaxRuns
  /\ run' = run + 1
  /\ pc' = "reloc1"
  /\ exitCode' = 0
  /\ tunnelId' = NoId /\ activeTunnelId' = NoId
  /\ log' = <<>> /\ last' = NoAction /\ clean' = TRUE
  /\ runStart' = Snapshot
  /\ UNCHANGED <<world, verifyVars, diag, destroyVars, commandVars>>

InitDeploy ==
  /\ InitWorld
  /\ pc = "reloc1" /\ exitCode = 0
  /\ tunnelId = NoId /\ activeTunnelId = NoId
  /\ log = <<>> /\ last = NoAction /\ clean = TRUE /\ run = 1
  /\ runStart = Snapshot
  /\ results = <<>> /\ requests = [i \in 1..Len(endpoints) |-> 0]
  /\ diag = NoDiag
  /\ NoDestroy /\ NoCommands

NextDeploy ==
  \/ Relocate1 \/ handleTunnelLogin \/ TunnelList \/ TunnelCreate \/ Relocate2
  \/ updateTunnelConfig \/ handleDNSRouting \/ Build \/ Up \/ waitForServices
  \/ DeployVerify \/ DeployAgain

SpecDeploy == InitDeploy /\ [][NextDeploy]_vars

\* ------------------------------------- verify-endpoints.ts: main execution
\* checkPrerequisites and the exit of the script when it fails
checkPrerequisites ==
  /\ pc = "v_prereq"
  /\ \E ok \in BOOLEAN :
       IF ok THEN pc' = "v_test" /\ UNCHANGED exitCode ELSE Exit(1)
  /\ UNCHANGED <<world, locals, log, last, clean, run, runStart, verifyVars, diag, destroyVars, commandVars>>

\* one iteration of the loop of verifyDeployment: testEndpoint on the next
\* endpoint, one fetch, its result pushed
TestNextEndpoint ==
  /\ pc = "v_test"
  /\ Len(results) < Len(endpoints)
  /\ \E resp \in Fetches :
       /\ results' = Append(results, [fetch |-> resp, outcome |-> classify(resp),
                                      ok |-> testEndpoint(resp)])
       /\ requests' = [requests EXCEPT ![Len(results) + 1] = @ + 1]
  /\ UNCHANGED <<world, deployVars, diag, destroyVars, commandVars>>

\* the summary of verifyDeployment and the end of the script
VerifySummary ==
  /\ pc = "v_test"
  /\ Len(results) = Len(endpoints)
  /\ Exit(verifyExit([i \in 1..Len(results) |-> results[i].ok]))
  /\ UNCHANGED <<world, locals, log, last, clean, run, runStart, verifyVars, diag, destroyVars, commandVars>>

InitVerify ==
  /\ InitWorld
  /\ cert /\ Present(rootFiles) = {} /\ Present(credFiles) = {"uA.json"}
  /\ Len(registry) = 1 /\ config.tunnel = "uA"
  /\ pc = "v_prereq" /\ exitCode = 0
  /\ tunnelId = NoId /\ activeTunnelId = NoId
  /\ log = <<>> /\ last = NoAction /\ clean = TRUE /\ run = 1
  /\ runStart = Snapshot
  /\ results = <<>> /\ requests = [i \in 1..Len(endpoints) |-> 0]
  /\ diag = NoDiag
  /\ NoDestroy /\ NoCommands

NextVerify == checkPrerequisites \/ TestNextEndpoint \/ VerifySummary

SpecVerify == InitVerify /\ [][NextVerify]_vars

\* ------------------------------------------------- update-config.ts: main
\* update-config.ts run on its own: with a tunnel id argument (as deploy.ts
\* passes it) or with none.  last.res keeps the argument.
UpdateArgs == Ids \cup {NoId}

UpdateConfigRun ==
  /\ pc = "u_main"
  /\ \E arg \in UpdateArgs, io \in IOFaults :
       LET r == updateConfigMain(arg, credFiles, config, pointer, io) IN
       /\ config' = r.config
       /\ pointer' = r.pointer
       /\ log' = Append(log, "update-config")
       /\ last' = [act |-> "update-config", res |-> arg, ok |-> r.ok]
       /\ clean' = r.ok
       /\ Exit(IF r.ok THEN 0 ELSE 1)
  /\ UNCHANGED <<rootFiles, credFiles, credDir, cert, registry, dnsRouted, imageBuilt,
                 running, locals, run, runStart, verifyVars, diag, destroyVars, commandVars>>

\* The worlds update-config.ts is started on: any credentials directory; a
\* config.yml naming a tunnel id, the tunnel's name, or no tunnel at all, with
\* any credentials-file line and either set of ingress rules; any pointer file.
InitUpdate ==
  /\ rootFiles = [n \in JsonFiles |-> NoFile]
  /\ credFiles \in [JsonFiles -> {NoFile, "k1"}]
  /\ credFiles["uC.json"] = NoFile
  /\ credDir = TRUE /\ cert = TRUE
  /\ registry = <<>>
  /\ \E t \in {"uA", "uB", "c", NoId},
        cf \in {NoPath, credentialsPath("uA"), credentialsPath("uB")},
        rs \in {"ingress-1", "ingress-2"} :
       config = [tunnel |-> t, tail |-> IF t = "c" THEN NameTail ELSE "",
                 credfile |-> cf, cftail |-> "", rest |-> rs]
  /\ pointer \in {NoId, "uA", "uB"}
  /\ dnsRouted = FALSE /\ imageBuilt = FALSE /\ running = {}
  /\ pc = "u_main" /\ exitCode = 0
  /\ tunnelId = NoId /\ activeTunnelId = NoId
  /\ log = <<>> /\ last = NoAction /\ clean = TRUE /\ run = 1
  /\ runStart = Snapshot
  /\ results = <<>> /\ requests = [i \in 1..Len(endpoints) |-> 0]
  /\ diag = NoDiag
  /\ NoDestroy /\ NoCommands

NextUpdate == UpdateConfigRun

SpecUpdate == InitUpdate /\ [][NextUpdate]_vars

\* ------------------------------------------------------------ diagnose.ts
\* containers.includes(needle) on the lower-cased `docker ps` name list: some
\* name has the needle as a substring
isSubstring(needle, name) ==
  \/ needle = name
  \/ needle = "cloudflare-tunnel" /\ name = "cloudflare-tunnel-app"
outputIncludes(names, needle) == \E n \in names : isSubstring(needle, n)

\* checkContainers on a successful `docker ps`
containersFound(names) ==
  outputIncludes(names, "cloudflare-tunnel-app") /\ outputIncludes(names, "cloudflare-tunnel")

\* getTunnelList: each parsed row with its credentials cross-reference
tunnelInfo(rows, cred) ==
  [i \in 1..Len(rows) |->
     [id |-> rows[i].id, name |-> rows[i].name,
      hasCredentials |-> checkFileExists(cred, FileNameOf(rows[i].id))]]

\* getActiveTunnelId: the pointer file first, else the single credential file
getActiveTunnelIdFirst(ptr, cred) ==
  IF ptr # NoId THEN ptr
  ELSE IF Present(cred) # {}
       THEN stripJson(CHOOSE n \in Present(cred) : TRUE)
       ELSE NoId
getActiveTunnelId(ptr, cred) ==
  IF ptr # NoId THEN ptr
  ELSE IF Cardinality(Present(cred)) = 1
       THEN stripJson(CHOOSE n \in Present(cred) : TRUE)
       ELSE NoId

sameNameTunnels(ts) == {i \in 1..Len(ts) : ts[i].name = ExpectedName}
tunnelsWithCreds(ts) == {i \in 1..Len(ts) : ts[i].hasCredentials}
firstWithCreds(ts) == ts[CHOOSE i \in tunnelsWithCreds(ts) : \A j \in tunnelsWithCreds(ts) : i <= j]

Rec(text, id) == [text |-> text, id |-> id]

\* the "Analyze issues" part of diagnose: the issues and recommendations, in
\* the order they are pushed
tunnelIssues(d) ==
  IF Len(d.tunnels) = 0 THEN <<"No tunnels found">>
  ELSE IF Len(d.tunnels) > 1 /\ Cardinality(sameNameTunnels(d.tunnels)) > 1
       THEN <<"Multiple tunnels with same name">>
       ELSE <<>>
tunnelRecs(d) ==
  IF Len(d.tunnels) = 0 THEN <<Rec("Run: deno task tunnel:create", NoId)>>
  ELSE IF Len(d.tunnels) > 1 /\ Cardinality(sameNameTunnels(d.tunnels)) > 1
       THEN <<Rec("Delete old tunnels or use unique names", NoId)>>
       ELSE <<>>
credIssuesSilent(d) == <<>>
credIssues(d) ==
  IF Cardinality(tunnelsWithCreds(d.tunnels)) = 0 THEN <<"No tunnel has credentials">>
  ELSE IF Cardinality(tunnelsWithCreds(d.tunnels)) > 1
       THEN <<"Multiple tunnels have credentials">>
       ELSE <<>>
credRecs(d) ==
  IF Cardinality(tunnelsWithCreds(d.tunnels)) = 0
  THEN <<Rec("Run tunnel creation to generate credentials", NoId)>>
  ELSE IF Cardinality(tunnelsWithCreds(d.tunnels)) > 1
       THEN <<Rec("Clean up old tunnel credentials", NoId)>>
       ELSE <<>>
configMismatchAny(d) ==
  /\ d.configTunnelId # NoId
  /\ Cardinality(tunnelsWithCreds(d.tunnels)) = 1
configMismatch(d) ==
  /\ d.configTunnelId # NoId
  /\ Cardinality(tunnelsWithCreds(d.tunnels)) = 1
  /\ d.configTunnelId # firstWithCreds(d.tunnels).id
configIssues(d) ==
  IF configMismatch(d) THEN <<"Config tunnel ID doesn't match tunnel with credentials">>
  ELSE <<>>
configRecsNameConfig(d) ==
  IF configMismatch(d)
  THEN <<Rec("Update config.yml to use tunnel ID", d.configTunnelId)>>
  ELSE <<>>
configRecs(d) ==
  IF configMismatch(d)
  THEN <<Rec("Update config.yml to use tunnel ID", firstWithCreds(d.tunnels).id)>>
  ELSE <<>>
dnsIssues(d) == IF ~d.dns THEN <<"DNS record for halibut.cc not found">> ELSE <<>>
dnsRecs(d) == IF ~d.dns THEN <<Rec("Run: deno task tunnel:route", NoId)>> ELSE <<>>
containerIssues(d) == IF ~d.containersRunning THEN <<"Containers not running">> ELSE <<>>
containerRecs(d) == IF ~d.containersRunning THEN <<Rec("Run: deno task up", NoId)>> ELSE <<>>

analyze(d) ==
  [d EXCEPT
     !.issues = tunnelIssues(d) \o credIssues(d) \o configIssues(d) \o dnsIssues(d)
                  \o containerIssues(d),
     !.recommendations = tunnelRecs(d) \o credRecs(d) \o configRecs(d) \o dnsRecs(d)
                  \o containerRecs(d)]

\* `if (result.issues.length > 0) Deno.exit(1)` of main
diagnoseExitMany(d) == IF Len(d.issues) > 1 THEN 1 ELSE 0
diagnoseExit(d) == IF Len(d.issues) > 0 THEN 1 ELSE 0

\* the external commands diagnose runs through runCommand, by probe
diagCommandCreates(probe) ==
  CASE probe = "getTunnelList" -> "create"
    [] OTHER -> "ps"
diagCommand(probe) ==
  CASE probe = "getTunnelList" -> "list"
    [] OTHER -> "ps"

DiagFrame ==
  UNCHANGED <<world, exitCode, locals, last, clean, run, runStart, verifyVars,
              destroyVars, commandVars>>

\* result.tunnels = await getTunnelList()
getTunnelList ==
  /\ pc = "d_tunnels"
  /\ \E ok \in BOOLEAN :
       diag' = [diag EXCEPT !.tunnels = IF ok THEN tunnelInfo(registry, credFiles) ELSE <<>>]
  /\ log' = Append(log, diagCommand("getTunnelList"))
  /\ pc' = "d_config"
  /\ DiagFrame

\* result.configTunnelId = await getConfigTunnelId()
getConfigTunnelId ==
  /\ pc = "d_config"
  /\ \E readOK \in BOOLEAN :
       diag' = [diag EXCEPT !.configTunnelId = IF readOK THEN config.tunnel ELSE NoId]
  /\ pc' = "d_active"
  /\ UNCHANGED log
  /\ DiagFrame

\* result.activeTunnelId = await getActiveTunnelId()
DiagActiveTunnel ==
  /\ pc = "d_active"
  /\ diag' = [diag EXCEPT !.activeTunnelId = getActiveTunnelId(pointer, credFiles)]
  /\ pc' = "d_dns"
  /\ UNCHANGED log
  /\ DiagFrame

\* result.dnsRecords["halibut.cc"] = await checkDNS("halibut.cc"): a record
\* that exists is seen unless the query fails or times out
checkDNS ==
  /\ pc = "d_dns"
  /\ \E answered \in BOOLEAN :
       diag' = [diag EXCEPT !.dns = dnsRouted /\ answered]
  /\ pc' = "d_containers"
  /\ UNCHANGED log
  /\ DiagFrame

\* result.containersRunning = await checkContainers()
checkContainers ==
  /\ pc = "d_containers"
  /\ \E ok \in BOOLEAN :
       diag' = [diag EXCEPT !.containersRunning = ok /\ containersFound(running)]
  /\ log' = Append(log, diagCommand("checkContainers"))
  /\ pc' = "d_analyze"
  /\ DiagFrame

\* the analysis of diagnose()
DiagAnalyze ==
  /\ pc = "d_analyze"
  /\ diag' = analyze(diag)
  /\ pc' = "d_print"
  /\ UNCHANGED log
  /\ DiagFrame

\* printDiagnostics and the exit of main
DiagExit ==
  /\ pc = "d_print"
  /\ Exit(diagnoseExit(diag))
  /\ UNCHANGED <<world, locals, log, last, clean, run, runStart, verifyVars, diag, destroyVars, commandVars>>

InitDiag ==
  /\ rootFiles = [n \in JsonFiles |-> NoFile]
  /\ credFiles \in [JsonFiles -> {NoFile, "k1"}]
  /\ credFiles["uC.json"] = NoFile /\ credFiles["notes.json"] = NoFile
  /\ credDir = TRUE
  /\ cert \in BOOLEAN
  /\ registry \in Registries
  /\ \E t \in InitUUIDs \cup {NoId} :
       config = Config(t, "", IF t = NoId THEN NoPath ELSE credentialsPath(t))
  /\ pointer \in {NoId, "uB"}
  /\ dnsRouted \in BOOLEAN
  /\ imageBuilt = TRUE
  /\ running \in {{}, {"cloudflare-tunnel-app"}, {"cloudflare-tunnel"},
                  {"cloudflare-tunnel-app", "cloudflare-tunnel", "other-container"}}
  /\ pc = "d_tunnels" /\ exitCode = 0
  /\ tunnelId = NoId /\ activeTunnelId = NoId
  /\ log = <<>> /\ last = NoAction /\ clean = TRUE /\ run = 1
  /\ runStart = Snapshot
  /\ results = <<>> /\ requests = [i \in 1..Len(endpoints) |-> 0]
  /\ diag = NoDiag
  /\ NoDestroy /\ NoCommands

NextDiag ==
  \/ getTunnelList \/ getConfigTunnelId \/ DiagActiveTunnel \/ checkDNS
  \/ checkContainers \/ DiagAnalyze \/ DiagExit

SpecDiag == InitDiag /\ [][NextDiag]_vars


\* --------------------------------------------------------------- destroy.ts
\* parseArgs, with the --help test of main
DestroyArgs == [full : BOOLEAN, keepTunnel : BOOLEAN, keepImages : BOOLEAN, help : BOOLEAN]

\* `if (full && !keepTunnel)` of main
fullCleanupAny(a) == a.full
fullCleanup(a) == a.full /\ ~a.keepTunnel

DestroyFrame == UNCHANGED <<rootFiles, credDir, config, pointer, locals, clean, run,
                            runStart, verifyVars, diag, commandVars, args>>

\* main up to the try: --help prints the usage and returns
DestroyMain ==
  /\ pc = "x_start"
  /\ IF args.help
     THEN /\ log' = Append(log, "usage")
          /\ pc' = "exit"
     ELSE /\ pc' = "x_stop"
          /\ UNCHANGED log
  /\ UNCHANGED <<credFiles, cert, registry, dnsRouted, imageBuilt, running, exitCode,
                 last, destroyVars>>
  /\ DestroyFrame

\* stopContainers: `docker compose down`; a failure only prints a warning
stopContainers ==
  /\ pc = "x_stop"
  /\ \E ok \in BOOLEAN :
       /\ running' = IF ok THEN {} ELSE running
       /\ stopSuccess' = ok
       /\ log' = Append(log, "down")
       /\ last' = [act |-> "down", res |-> OkFail(ok), ok |-> ok]
  /\ pc' = "x_cleanup"
  /\ UNCHANGED <<credFiles, cert, registry, dnsRouted, imageBuilt, exitCode,
                 tunnelRemoved, status>>
  /\ DestroyFrame

\* cleanupDockerResources: `docker compose down -v` and `cargo clean`, both
\* with allowFailure, then the `if (!keepImages)` of main
cleanupDockerResources ==
  /\ pc = "x_cleanup"
  /\ \E volOK \in BOOLEAN, cargoOK \in BOOLEAN :
       /\ running' = IF volOK THEN {} ELSE running
       /\ log' = log \o <<"down -v", "cargo clean">>
       /\ last' = [act |-> "cargo clean", res |-> OkFail(cargoOK), ok |-> TRUE]
  /\ pc' = IF args.keepImages THEN "x_tunnel" ELSE "x_images"
  /\ UNCHANGED <<credFiles, cert, registry, dnsRouted, imageBuilt, exitCode, destroyVars>>
  /\ DestroyFrame

\* removeDockerImages: three `docker rmi`, all with allowFailure; an image a
\* container still uses is not removed
removeDockerImages ==
  /\ pc = "x_images"
  /\ \E ok \in BOOLEAN :
       /\ ok => running = {}
       /\ imageBuilt' = IF ok THEN FALSE ELSE imageBuilt
       /\ log' = log \o <<"rmi", "rmi", "rmi">>
       /\ last' = [act |-> "rmi", res |-> OkFail(ok), ok |-> TRUE]
  /\ pc' = "x_tunnel"
  /\ UNCHANGED <<credFiles, cert, registry, dnsRouted, running, exitCode, destroyVars>>
  /\ DestroyFrame

keptRow(r) == r.name # ExpectedName

\* `if (tunnelRemoved)` of main, around removeCredentials
removesCredentialsAlways(removed) == TRUE
removesCredentials(removed) == removed

\* removeTunnelAndDNS, under `if (full && !keepTunnel)`: route delete and
\* cleanup with allowFailure, then `tunnel delete cloudflare-tunnel-example`,
\* whose success is the function's result.  The commands need the
\* certificate; delete needs a tunnel of that name.
removeTunnelAndDNS ==
  /\ pc = "x_tunnel"
  /\ IF fullCleanup(args)
     THEN \E routeOK \in BOOLEAN, cleanupOK \in BOOLEAN, deleteOK \in BOOLEAN :
            /\ (routeOK \/ cleanupOK \/ deleteOK) => cert
            /\ deleteOK => \E i \in 1..Len(registry) : registry[i].name = ExpectedName
            /\ dnsRouted' = IF routeOK THEN FALSE ELSE dnsRouted
            /\ registry' = IF deleteOK THEN SelectSeq(registry, keptRow) ELSE registry
            /\ tunnelRemoved' = deleteOK
            /\ log' = log \o <<"route delete", "cleanup", "delete">>
            /\ last' = [act |-> "delete", res |-> OkFail(deleteOK), ok |-> deleteOK]
            /\ pc' = IF removesCredentials(deleteOK) THEN "x_creds" ELSE "x_status"
     ELSE /\ pc' = "x_status"
          /\ UNCHANGED <<dnsRouted, registry, tunnelRemoved, log, last>>
  /\ UNCHANGED <<credFiles, cert, imageBuilt, running, exitCode, stopSuccess, status>>
  /\ DestroyFrame

RECURSIVE removeFiles(_, _, _, _)
removeFiles(cred, order, i, failAt) ==
  IF i > Len(order) \/ i = failAt THEN cred
  ELSE removeFiles([cred EXCEPT ![order[i]] = NoFile], order, i + 1, failAt)

\* removeCredentials, under `if (tunnelRemoved)`: every *.json of credentials/
\* in directory order, then cert.pem in a try of its own; a failing readDir or
\* remove ends the function with false, which main does not look at
removeCredentials ==
  /\ pc = "x_creds"
  /\ \E readOK \in BOOLEAN, order \in Perms(Present(credFiles)), certOK \in BOOLEAN :
     \E failAt \in 0..Len(order) :
       /\ ~credDir => ~readOK
       /\ certOK => cert
       /\ IF ~readOK
          THEN /\ UNCHANGED <<credFiles, cert>>
               /\ last' = [act |-> "remove-credentials", res |-> "fail", ok |-> FALSE]
          ELSE /\ credFiles' = removeFiles(credFiles, order, 1, failAt)
               /\ cert' = IF failAt = 0 /\ certOK THEN FALSE ELSE cert
               /\ last' = [act |-> "remove-credentials", res |-> OkFail(failAt = 0),
                           ok |-> failAt = 0]
       /\ log' = Append(log, "remove-credentials")
  /\ pc' = "x_status"
  /\ UNCHANGED <<registry, dnsRouted, imageBuilt, running, exitCode, destroyVars>>
  /\ DestroyFrame

\* the status summary at the end of main
statusSummary(a) ==
  [printed |-> TRUE, containers |-> "stopped", volumes |-> "removed",
   images |-> IF a.keepImages THEN "preserved" ELSE "removed",
   tunnel |-> IF fullCleanup(a) THEN "removed" ELSE "preserved",
   configuration |-> IF fullCleanup(a) THEN "removed" ELSE "preserved"]

DestroyStatus ==
  /\ pc = "x_status"
  /\ status' = statusSummary(args)
  /\ pc' = "exit"
  /\ UNCHANGED <<credFiles, cert, registry, dnsRouted, imageBuilt, running, exitCode,
                 log, last, stopSuccess, tunnelRemoved>>
  /\ DestroyFrame

InitDestroy ==
  /\ rootFiles = [n \in JsonFiles |-> NoFile]
  /\ credDir \in BOOLEAN
  /\ credFiles \in [JsonFiles -> {NoFile, "k1"}]
  /\ credFiles["uC.json"] = NoFile /\ credFiles["notes.json"] = NoFile
  /\ ~credDir => Present(credFiles) = {}
  /\ cert \in BOOLEAN
  /\ registry \in Rows(0) \cup Rows(1)
  /\ \A i \in 1..Len(registry) : registry[i].id = "uA"
  /\ config = Config("uA", "", credentialsPath("uA"))
  /\ pointer = "uA"
  /\ dnsRouted \in BOOLEAN /\ imageBuilt \in BOOLEAN
  /\ running \in {{}, {"cloudflare-tunnel-app", "cloudflare-tunnel"}}
  /\ pc = "x_start" /\ exitCode = 0
  /\ tunnelId = NoId /\ activeTunnelId = NoId
  /\ log = <<>> /\ last = NoAction /\ clean = TRUE /\ run = 1
  /\ runStart = Snapshot
  /\ results = <<>> /\ requests = [i \in 1..Len(endpoints) |-> 0]
  /\ diag = NoDiag
  /\ args \in DestroyArgs
  /\ stopSuccess = FALSE /\ tunnelRemoved = FALSE /\ status = NoStatus
  /\ NoCommands

NextDestroy ==
  \/ DestroyMain \/ stopContainers \/ cleanupDockerResources \/ removeDockerImages
  \/ removeTunnelAndDNS \/ removeCredentials \/ DestroyStatus

SpecDestroy == InitDestroy /\ [][NextDestroy]_vars

\* ------------------------------------------------------------ lib/command.ts
\* The executables a command may name: one that exits 0, one that exits with
\* a non-zero code and text on stderr, and one that cannot be spawned.
Cmds == {"true", "false", "missing"}

CommandOptions == [allowFailure : BOOLEAN, suppressOutput : BOOLEAN]

CommandSet == [cmd : Cmds, options : CommandOptions]

\* new Deno.Command(cmd[0], ...).output(): what the process gives back, or the
\* error thrown when it cannot be spawned
processOutput(cmd) ==
  CASE cmd = "true"  -> [thrown |-> FALSE, success |-> TRUE,  stdout |-> "out", stderr |-> ""]
    [] cmd = "false" -> [thrown |-> FALSE, success |-> FALSE, stdout |-> "out", stderr |-> "stderr text"]
    [] OTHER         -> [thrown |-> TRUE, message |-> "entity not found"]

Returned(value, printed) == [kind |-> "return", value |-> value, printed |-> printed]
Thrown(message) == [kind |-> "throw", value |-> message, printed |-> <<>>]

\* runCommand with the catch clause taken away: the spawn error propagates
runCommandUncaught(cmd, options) ==
  LET p == processOutput(cmd)
      quiet == options.suppressOutput IN
  IF p.thrown THEN Thrown(p.message)
  ELSE IF p.success
       THEN Returned([success |-> TRUE, output |-> p.stdout],
                     IF quiet THEN <<>> ELSE <<"Success">>)
       ELSE Returned([success |-> FALSE, output |-> p.stdout, error |-> p.stderr],
                     IF ~quiet /\ ~options.allowFailure THEN <<"Failed">> ELSE <<>>)

\* runCommand(cmd, options): one spawn, every outcome returned as a CommandResult
runCommand(cmd, options) ==
  LET p == processOutput(cmd)
      quiet == options.suppressOutput IN
  IF p.thrown
  THEN Returned([success |-> FALSE, output |-> "", error |-> p.message],
                IF ~quiet /\ ~options.allowFailure THEN <<"Exception">> ELSE <<>>)
  ELSE IF p.success
       THEN Returned([success |-> TRUE, output |-> p.stdout],
                     IF quiet THEN <<>> ELSE <<"Success">>)
       ELSE Returned([success |-> FALSE, output |-> p.stdout, error |-> p.stderr],
                     IF ~quiet /\ ~options.allowFailure THEN <<"Failed">> ELSE <<>>)

\* `if (!result.success && !options?.allowFailure) break`
stopsSequenceAlways(result, options) == ~result.success
stopsSequence(result, options) == ~result.success /\ ~options.allowFailure

CommandFrame == UNCHANGED <<world, locals, clean, run, runStart, verifyVars, diag,
                            destroyVars, commands>>

\* one iteration of the for loop of runCommandSequence
RunNextCommand ==
  /\ pc = "s_loop"
  /\ Len(seqResults) < Len(commands)
  /\ LET i == Len(seqResults) + 1
         c == commands[i]
         r == runCommand(c.cmd, c.options) IN
       /\ spawns' = [spawns EXCEPT ![i] = @ + 1]
       /\ log' = log \o r.printed
       /\ last' = [act |-> c.cmd, res |-> r.kind, ok |-> r.kind = "return" /\ r.value.success]
       /\ IF r.kind = "throw"
          THEN Exit(1) /\ UNCHANGED seqResults
          ELSE /\ seqResults' = Append(seqResults, r.value)
               /\ pc' = IF stopsSequence(r.value, c.options) THEN "s_return" ELSE "s_loop"
               /\ UNCHANGED exitCode
  /\ CommandFrame

\* `return results`, after the loop has run out or was left by break
SequenceReturn ==
  /\ \/ pc = "s_return"
     \/ pc = "s_loop" /\ Len(seqResults) = Len(commands)
  /\ pc' = "exit"
  /\ UNCHANGED <<exitCode, log, last, seqResults, spawns>>
  /\ CommandFrame

CommandLists == UNION {[1..n -> CommandSet] : n \in 0..MaxCommands}

InitCommand ==
  /\ rootFiles = [n \in JsonFiles |-> NoFile]
  /\ credFiles = [n \in JsonFiles |-> NoFile]
  /\ credDir = TRUE /\ cert = TRUE
  /\ registry = <<>>
  /\ config = Config(NoId, "", NoPath)
  /\ pointer = NoId
  /\ dnsRouted = FALSE /\ imageBuilt = FALSE /\ running = {}
  /\ pc = "s_loop" /\ exitCode = 0
  /\ tunnelId = NoId /\ activeTunnelId = NoId
  /\ log = <<>> /\ last = NoAction /\ clean = TRUE /\ run = 1
  /\ runStart = Snapshot
  /\ results = <<>> /\ requests = [i \in 1..Len(endpoints) |-> 0]
  /\ diag = NoDiag
  /\ NoDestroy
  /\ commands \in CommandLists
  /\ seqResults = <<>>
  /\ spawns = [i \in 1..Len(commands) |-> 0]

NextCommand == RunNextCommand \/ SequenceReturn

SpecCommand == InitCommand /\ [][NextCommand]_vars

\* ------------------------------------------------------------------ claims
InLog(act) == \E i \in 1..Len(log) : log[i] = act

Collisions(root, cred) == {n \in JsonFiles : root[n] # NoFile /\ cred[n] # NoFile}

\* C1: a relocation step never overwrites: every *.json file of cloudflared/
\* whose name already exists in cloudflared/credentials/ is left where it is,
\* the file in credentials/ keeps its content, and the step ends in the next
\* step of the pipeline, never in an exit.
C1_NeverOverwrites ==
  [][(pc \in {"reloc1", "reloc2"} /\ Collisions(rootFiles, credFiles) # {}) =>
       /\ \A n \in Collisions(rootFiles, credFiles) :
            credFiles'[n] = credFiles[n] /\ rootFiles'[n] = rootFiles[n]
       /\ pc' \in {"login", "config"}]_vars

\* C1 witness: the first relocation has run on a directory with a colliding
\* file and another file that it moved.
C1_Witness ==
  /\ pc = "login" /\ last.act = "relocate" /\ last.res = "moved"
  /\ Collisions(runStart.rootFiles, runStart.credFiles) # {}
  /\ Collisions(rootFiles, credFiles) = Collisions(runStart.rootFiles, runStart.credFiles)

StateChanging == {"login", "create", "route-dns", "build", "up"}

C3_Ambiguity ==
  /\ (Cardinality(sameNameTunnels(registry)) >= 2 /\ last.act = "list" /\ last.ok) =>
       tunnelId = NoId
  /\ (pc = "d_print" /\ Cardinality(sameNameTunnels(diag.tunnels)) >= 2) =>
       \E i \in 1..Len(diag.issues) : diag.issues[i] = "Multiple tunnels with same name"

\* C4: a route-DNS result that is a failure with "already exists" in its error
\* text makes handleDNSRouting return true, and whatever the result of the
\* route-DNS command the pipeline goes on to the build step.
C4_DNSTolerance ==
  last.act = "route-dns" =>
    /\ pc = "build"
    /\ last.res = "already exists" => last.ok

C4_Witness == last.act = "route-dns" /\ last.res = "already exists" /\ pc = "build"

\* C5: a failed login, and a tunnel step that yields no tunnel id, end the run
\* at once with exit code 1: the failing command is the last action invoked.
C5_AuthAndCreationFatal ==
  /\ (last.act = "login" /\ ~last.ok) =>
       pc = "exit" /\ exitCode = 1 /\ log = <<"relocate", "login">>
  /\ (last.act = "create" /\ tunnelId = NoId) =>
       pc = "exit" /\ exitCode = 1 /\ log[Len(log)] = "create"
       /\ \A a \in {"update-config", "route-dns", "build", "up", "settle", "verify"} : ~InLog(a)

C5_Witness == last.act = "login" /\ ~last.ok /\ pc = "exit" /\ ~cert

C7_BuildStartFatal ==
  ((last.act = "build" \/ last.act = "up") /\ ~last.ok) =>
    /\ pc = "exit" /\ exitCode = 1
    /\ last.act = "build" => ~InLog("up")
    /\ ~InLog("settle") /\ ~InLog("verify")

C7_Witness == last.act = "build" /\ ~last.ok /\ pc = "exit" /\ InLog("route-dns")

C9_VerifiedOnlyIfAll ==
  /\ \A i \in 1..Len(endpoints) : requests[i] = IF i <= Len(results) THEN 1 ELSE 0
  /\ (pc = "exit" /\ Len(results) > 0) => \A i \in 1..Len(endpoints) : requests[i] = 1
  /\ (pc = "exit" /\ exitCode = 0) =>
       /\ Len(results) = Len(endpoints)
       /\ \A i \in 1..Len(results) : results[i].outcome = "success"

C9_Witness ==
  /\ pc = "exit" /\ exitCode = 1 /\ Len(results) = Len(endpoints)
  /\ results[1].outcome = "wrong-status" /\ results[2].outcome = "success"
  /\ requests[2] = 1

\* C10: Diagnose exits non-zero if and only if at least one issue was recorded.
C10_ExitIffIssues ==
  pc = "exit" => (exitCode # 0 <=> Len(diag.issues) > 0)

C10_Witness == pc = "exit" /\ exitCode # 0 /\ Len(diag.issues) = 1

\* C11: Diagnose is read-only: whatever the probes give, the only external
\* commands a Diagnose run invokes are the tunnel list and the container
\* listing, and the credential files, the certificate, config.yml and the
\* pointer file are at every point of the run what they were when it started.
C11_DiagnoseReadOnly ==
  /\ \A i \in 1..Len(log) : log[i] \in {"list", "ps"}
  /\ rootFiles = runStart.rootFiles /\ credFiles = runStart.credFiles
  /\ cert = runStart.cert /\ config = runStart.config /\ pointer = runStart.pointer

\* C11 witness: a Diagnose run has ended with issues after both commands ran.
C11_Witness == pc = "exit" /\ log = <<"list", "ps">> /\ exitCode = 1 /\ Len(diag.tunnels) = 2

FullOrder ==
  <<"relocate", "login", "list", "create", "relocate", "update-config", "route-dns",
    "build", "up", "settle", "verify">>

PlanActions == {"login", "create", "update-config", "route-dns", "build", "up"}

FourIssues ==
  <<"No tunnels found", "No tunnel has credentials",
    "DNS record for halibut.cc not found", "Containers not running">>

BothContainers == {"cloudflare-tunnel-app", "cloudflare-tunnel"}

\* the probes reported the world as it is
DiagFaithful ==
  /\ diag.tunnels = tunnelInfo(registry, credFiles)
  /\ diag.configTunnelId = config.tunnel
  /\ diag.dns = dnsRouted
  /\ diag.containersRunning = containersFound(running)

FullyDeployed ==
  /\ cert
  /\ Len(registry) = 1
  /\ checkFileExists(credFiles, FileNameOf(registry[1].id))
  /\ config.tunnel = registry[1].id
  /\ dnsRouted
  /\ BothContainers \subseteq running

\* C14: on a fully deployed world (certificate, exactly one tunnel, its
\* credentials present, config naming it, DNS record resolving, both
\* containers running) whose probes answer, Diagnose reports no issue and no
\* recommendation and exits 0.
C14_FullyDeployedDiagnosis ==
  (FullyDeployed /\ DiagFaithful /\ pc = "exit") =>
    diag.issues = <<>> /\ diag.recommendations = <<>> /\ exitCode = 0

C14_Witness ==
  FullyDeployed /\ DiagFaithful /\ pc = "exit" /\ exitCode = 0 /\ diag.configTunnelId # NoId

\* Config drift towards tunnel a: the only credential file is a's, a is
\* listed, config.yml names another tunnel, and the rest is reconciled.
Drift(a) ==
  /\ cert
  /\ Present(credFiles) = {FileNameOf(a)}
  /\ \E i \in 1..Len(registry) : registry[i].id = a
  /\ Cardinality(sameNameTunnels(registry)) <= 1
  /\ config.tunnel \notin {NoId, a}
  /\ dnsRouted
  /\ BothContainers \subseteq running

\* C15: under config drift towards tunnel a, with probes that answer, Diagnose
\* reports exactly one issue, the config mismatch, and its one recommendation
\* carries a's id.
C15_ConfigDriftDiagnosis ==
  \A a \in UUIDs :
    (Drift(a) /\ DiagFaithful /\ pc \in {"d_print", "exit"}) =>
      /\ diag.issues = <<"Config tunnel ID doesn't match tunnel with credentials">>
      /\ diag.recommendations = <<Rec("Update config.yml to use tunnel ID", a)>>

C15_Witness ==
  /\ Drift("uB") /\ DiagFaithful /\ pc = "exit" /\ config.tunnel = "uA"
  /\ Len(diag.recommendations) = 1 /\ diag.recommendations[1].id = "uB"

IsPrefix(s, t) == Len(s) <= Len(t) /\ \A i \in 1..Len(s) : s[i] = t[i]

\* the orders of a complete run: login and create are each invoked or skipped
Orders ==
  {<<"relocate", "login", "list", "create", "relocate", "update-config", "route-dns",
     "build", "up", "settle", "verify">>,
   <<"relocate", "list", "create", "relocate", "update-config", "route-dns",
     "build", "up", "settle", "verify">>,
   <<"relocate", "login", "list", "relocate", "update-config", "route-dns",
     "build", "up", "settle", "verify">>,
   <<"relocate", "list", "relocate", "update-config", "route-dns",
     "build", "up", "settle", "verify">>}

\* C17: the actions of a Deploy run are invoked one after the other in the
\* fixed order relocate, login, list, create, relocate, update-config, route
\* DNS, build, up, settle, verify (login and create may be skipped), and
\* update-config and route DNS are invoked only with a tunnel id in hand.
C17_ActionOrdering ==
  /\ \E o \in Orders : IsPrefix(log, o)
  /\ (InLog("update-config") \/ InLog("route-dns")) =>
       tunnelId # NoId /\ activeTunnelId # NoId

C17_Witness == pc = "exit" /\ log = FullOrder /\ activeTunnelId = "uC"

Count(act) == Cardinality({i \in 1..Len(log) : log[i] = act})

\* C18: with cert.pem present when the run starts, login is never invoked and
\* the run goes on to the tunnel list; without it, login is the action after
\* the first relocation and is invoked exactly once.
C18_LoginSkippedWhenCertified ==
  /\ runStart.cert => ~InLog("login")
  /\ (runStart.cert /\ Len(log) >= 2) => log[2] = "list"
  /\ (~runStart.cert /\ Len(log) >= 2) => log[2] = "login" /\ Count("login") = 1

C18_Witness == runStart.cert /\ pc = "create" /\ log = <<"relocate", "list">>

\* C19 as claimed: after a successful listing, exactly one tunnel of the
\* expected name means create is not invoked and that tunnel's id is carried
\* forward; no tunnel of the expected name means create is invoked; and after
\* a successful create the id carried forward is the id of the new tunnel.
C19_CreateSkippedWhenPresent ==
  /\ (last.act = "list" /\ last.ok /\ Cardinality(sameNameTunnels(registry)) = 1) =>
       /\ pc = "reloc2"
       /\ \A i \in sameNameTunnels(registry) : tunnelId = registry[i].id
  /\ (last.act = "list" /\ last.ok /\ sameNameTunnels(registry) = {}) => pc = "create"
  /\ (last.act = "create" /\ last.ok) =>
       /\ Count("create") = 1
       /\ tunnelId = registry[Len(registry)].id

\* C20: getActiveTunnelId gives the pointer file's id when the file is there;
\* without it, the id of the credential file when there is exactly one, and
\* no id when there is none or more than one.
C20_ActiveTunnelId ==
  pc \in {"d_dns", "d_containers", "d_analyze", "d_print", "exit"} =>
    /\ pointer # NoId => diag.activeTunnelId = pointer
    /\ (pointer = NoId /\ Cardinality(Present(credFiles)) # 1) => diag.activeTunnelId = NoId
    /\ \A n \in JsonFiles :
         (pointer = NoId /\ Present(credFiles) = {n}) => FileNameOf(diag.activeTunnelId) = n

C20_Witness ==
  /\ pc = "exit" /\ pointer = NoId /\ Cardinality(Present(credFiles)) = 2
  /\ diag.activeTunnelId = NoId

\* C21 as claimed: a *.json file whose name is not a valid tunnel id never
\* determines the tunnel id Deploy passes to update-config and route DNS.
C21_InvalidFileIgnored ==
  \A n \in JsonFiles :
    (~isValidTunnelId(stripJson(n)) /\ (InLog("update-config") \/ InLog("route-dns"))) =>
      activeTunnelId # stripJson(n)

\* C22 as claimed: checkContainers gives true only if both cloudflare-tunnel-app
\* and cloudflare-tunnel are names of running containers.
C22_ContainerProbeExact ==
  (pc \in {"d_analyze", "d_print", "exit"} /\ diag.containersRunning) =>
    BothContainers \subseteq running

\* C23: a run of update-config changes config.yml at most in the tunnel id its
\* pattern matched and in the credentials-file scalar, both set for the same
\* id; all other lines are what they were, and text that followed the
\* matched id is still in the file, on one of the two lines.
C23_RewritePreservesRest ==
  pc = "exit" =>
    /\ config.rest = runStart.config.rest
    /\ \/ config = runStart.config
       \/ /\ \E id \in Ids : config.tunnel = id /\ config.credfile = credentialsPath(id)
          /\ \/ config.tail = runStart.config.tail /\ config.cftail = ""
             \/ config.tail = "" /\ config.cftail = runStart.config.tail

C23_Witness ==
  /\ pc = "exit" /\ exitCode = 0 /\ config.rest = "ingress-2"
  /\ runStart.config.tunnel = "uA" /\ config.tunnel = "uB"
  /\ runStart.config.credfile = NoPath /\ config.credfile = credentialsPath("uB")

\* C29 as claimed: whenever update-config given tunnel id T succeeds,
\* config.yml names tunnel T and its credentials-file is the path of T's
\* credential file, whatever the two values were before.
C29_ConfigCrossReference ==
  (pc = "exit" /\ last.act = "update-config" /\ last.res # NoId /\ exitCode = 0) =>
    /\ config.tunnel = last.res /\ config.tail = ""
    /\ config.credfile = credentialsPath(last.res) /\ config.cftail = ""

\* C26: a credential file that fails to move makes the relocation end with a
\* warning, not with an exit: the run goes on to the login step (to the config
\* step after the second relocation); and an update-config for a tunnel id
\* whose credential file is not in credentials/ fails.
C26_RelocationBestEffort ==
  [][/\ (pc = "reloc1" /\ last'.res = "warned") => (pc' = "login" /\ exitCode' = exitCode)
     /\ (pc = "reloc2" /\ last'.res = "warned") => (pc' = "config" /\ exitCode' = exitCode)
     /\ (pc = "config" /\ ~checkFileExists(credFiles, FileNameOf(activeTunnelId))) =>
          (~last'.ok /\ config' = config)]_vars

C26_Witness ==
  /\ last.act = "relocate" /\ last.res = "warned" /\ pc = "login"
  /\ Present(rootFiles) # {} /\ log = <<"relocate">>

\* what Diagnose would find on the present world with probes that answer
FaithfulDiag ==
  [NoDiag EXCEPT !.tunnels = tunnelInfo(registry, credFiles),
                 !.configTunnelId = config.tunnel,
                 !.dns = dnsRouted,
                 !.containersRunning = containersFound(running)]

ResultOf(i) == runCommand(commands[i].cmd, commands[i].options).value

\* C24: runCommand never throws: every call of a sequence ends in a returned
\* CommandResult.  A process that exits non-zero gives success = false with
\* the process's stderr in error, a process that cannot be spawned gives
\* success = false with the failure's message in error, whatever allowFailure
\* and suppressOutput are, and each call spawns its process once.
C24_CommandNormalised ==
  /\ last.res # "throw"
  /\ \A i \in 1..Len(seqResults) :
       /\ spawns[i] = 1
       /\ commands[i].cmd = "true" => seqResults[i] = [success |-> TRUE, output |-> "out"]
       /\ commands[i].cmd = "false" =>
            seqResults[i] = [success |-> FALSE, output |-> "out", error |-> "stderr text"]
       /\ commands[i].cmd = "missing" =>
            seqResults[i] = [success |-> FALSE, output |-> "", error |-> "entity not found"]
  /\ pc = "exit" => exitCode = 0

\* C24 witness: a sequence whose commands are all allowed to fail has returned
\* the results of a spawn failure and of a non-zero exit, one quiet, one not.
C24_Witness ==
  /\ pc = "exit" /\ Len(seqResults) = 3
  /\ commands[1].cmd = "missing" /\ commands[1].options.suppressOutput
  /\ commands[2].cmd = "false" /\ ~commands[2].options.suppressOutput
  /\ ~seqResults[1].success /\ ~seqResults[2].success /\ seqResults[3].success

DestroyCommands == {"route delete", "cleanup", "delete", "remove-credentials"}

\* what C25 says of a run without --full, or with --keep-tunnel
TunnelPreserved ==
  /\ \A c \in DestroyCommands : ~InLog(c)
  /\ credFiles = runStart.credFiles /\ cert = runStart.cert

\* C25 as claimed: in every invocation without --full, or with --keep-tunnel,
\* no route-delete, cleanup or tunnel-delete command is invoked and the
\* credential files and certificate are unchanged, and the containers are
\* stopped and the Docker resources cleaned.
C25_Original ==
  (pc = "exit" /\ ~(args.full /\ ~args.keepTunnel)) =>
     /\ TunnelPreserved
     /\ InLog("down") /\ InLog("down -v") /\ InLog("cargo clean")

\* C25 as amended: tunnel commands and removals of credential files or of the
\* certificate happen only in a run with --full and without --keep-tunnel (and
\* without --help); every other run that is not a --help run still invokes
\* the container stop and the Docker cleanup commands, while a --help run
\* invokes no command at all.
C25_PreservedByDefault ==
  /\ ~(args.full /\ ~args.keepTunnel /\ ~args.help) => TunnelPreserved
  /\ (pc = "exit" /\ ~args.help) =>
       InLog("down") /\ InLog("down -v") /\ InLog("cargo clean")
  /\ (pc = "exit" /\ args.help) => log = <<"usage">>

\* C25 witness: a run with --full and --keep-tunnel has ended: it stopped the
\* containers, and the tunnel, the credential file and the certificate that
\* were there at the start are still there.
C25_Witness ==
  /\ pc = "exit" /\ args.full /\ args.keepTunnel /\ ~args.help
  /\ InLog("down") /\ running = {}
  /\ Len(registry) = 1 /\ registry[1].name = ExpectedName
  /\ cert /\ credFiles["uA.json"] # NoFile

Outcomes == {"success", "wrong-status", "missing-content", "timeout",
             "dns-unresolvable", "connection-refused", "other-error"}

\* C31: every endpoint check has one outcome of the seven; a response with a
\* wrong status is a wrong-status whatever its body holds; and testEndpoint
\* returned true for the success outcome only, which is a response with the
\* expected status and the expected text.
C31_OneOutcome ==
  \A i \in 1..Len(results) :
    LET r == results[i] IN
    /\ r.outcome \in Outcomes
    /\ (r.fetch.kind = "response" /\ r.fetch.status # ExpectedStatus) =>
         r.outcome = "wrong-status"
    /\ r.outcome = "missing-content" =>
         (r.fetch.kind = "response" /\ r.fetch.status = ExpectedStatus /\ ~r.fetch.content)
    /\ r.outcome = "success" <=>
         (r.fetch.kind = "response" /\ r.fetch.status = ExpectedStatus /\ r.fetch.content)
    /\ r.fetch.kind = "error" =>
         r.outcome \in {"timeout", "dns-unresolvable", "connection-refused", "other-error"}
    /\ r.ok <=> r.outcome = "success"

\* C31 witness: a run has ended in which a wrong status came with a body that
\* lacks the expected text, and an error fitted two tests of the catch.
C31_Witness ==
  /\ pc = "exit" /\ Len(results) = 2
  /\ results[1].fetch = Response(500, FALSE) /\ results[1].outcome = "wrong-status"
  /\ results[2].fetch = FetchError("TypeError", {"ENOTFOUND", "ECONNREFUSED"})
  /\ results[2].outcome = "dns-unresolvable"

\* the tunnel id update-config works with: the argument, or the id of the only
\* credential file when there is no argument
EffectiveId ==
  LET ids == getCredentialTunnelIds(credFiles) IN
  IF last.res # NoId THEN last.res
  ELSE IF Cardinality(ids) = 1 THEN CHOOSE x \in ids : TRUE
  ELSE NoId

\* C32: when the tunnel id (given or detected) has not the 36-character
\* format, or has no credential file in credentials/, or config.yml has no
\* tunnel: line the pattern matches, update-config exits 1 and config.yml and
\* the pointer file are as they were.
C32_RejectedWritesNothing ==
  (/\ pc = "exit" /\ last.act = "update-config"
   /\ \/ ~isValidTunnelId(EffectiveId)
      \/ ~checkFileExists(credFiles, FileNameOf(EffectiveId))
      \/ runStart.config.tunnel = NoId) =>
    /\ exitCode = 1
    /\ config = runStart.config
    /\ pointer = runStart.pointer

\* C32 witness: an id of the right format without a credential file was
\* given, on a config that names another tunnel; the run ended with exit 1.
C32_Witness ==
  /\ pc = "exit" /\ last.act = "update-config" /\ last.res = "uB"
  /\ ~checkFileExists(credFiles, "uB.json")
  /\ runStart.config.tunnel = "uA" /\ runStart.pointer = "uA"
  /\ exitCode = 1 /\ config = runStart.config

\* C36: whenever update-config ends with success for tunnel id T, the pointer
\* file records T, config.yml names T, and getActiveTunnelId returns T.
C36_PointerAgreesWithConfig ==
  (pc = "exit" /\ last.act = "update-config" /\ exitCode = 0) =>
    /\ pointer = EffectiveId
    /\ config.tunnel = pointer
    /\ getActiveTunnelId(pointer, credFiles) = EffectiveId

\* C37: whenever update-config ends with a failure, config.yml and the
\* pointer file are as they were before the call.
C37_AllOrNothing ==
  (pc = "exit" /\ last.act = "update-config" /\ exitCode = 1) =>
    /\ config = runStart.config
    /\ pointer = runStart.pointer

\* C33: the tunnel id Deploy hands to the config rewrite and to DNS routing
\* (activeTunnelId for both) is the id of the tunnel of the expected name that
\* the tunnel step of the run found or created.
C33_OneTunnelId ==
  (InLog("update-config") \/ InLog("route-dns")) =>
    /\ activeTunnelId = tunnelId
    /\ \E i \in 1..Len(registry) :
         registry[i].name = ExpectedName /\ registry[i].id = activeTunnelId

\* C34: Deploy never invokes `tunnel create` while the registry holds a tunnel
\* of the expected name, whatever the `tunnel list` before it gave.
C34_NoCreateWhenPresent ==
  [][(pc = "create" /\ last'.act = "create" /\ log' # log) =>
       ~\E i \in 1..Len(registry) : registry[i].name = ExpectedName]_vars

\* a relocation step is being taken
RelocationStep == pc \in {"reloc1", "reloc2"} /\ last'.act = "relocate" /\ log' # log

\* every file is, after the step, where it was or (a file of cloudflared/
\* whose name was free in credentials/) in credentials/ under its name, and no
\* file has appeared
Conserved ==
  \A n \in JsonFiles :
    /\ credFiles[n] # NoFile => credFiles'[n] = credFiles[n]
    /\ rootFiles[n] # NoFile =>
         \/ rootFiles'[n] = rootFiles[n] /\ credFiles'[n] = credFiles[n]
         \/ rootFiles'[n] = NoFile /\ credFiles[n] = NoFile /\ credFiles'[n] = rootFiles[n]
    /\ rootFiles[n] = NoFile => rootFiles'[n] = NoFile /\ credFiles'[n] = credFiles[n]

\* a run of the relocation on the present directories moves nothing and
\* returns null, in whatever order the directory is read
SecondRunQuiet ==
  \A order \in Perms(Present(rootFiles)) :
    LET r == relocateLoop(rootFiles, credFiles, NoId, order, 1, 0) IN
    r.moved = NoId /\ r.root = rootFiles /\ r.cred = credFiles

\* C35 as claimed: every relocation conserves the files, and a second run
\* right after any run moves nothing and returns null.
C35_Original ==
  [][RelocationStep => (Conserved /\ SecondRunQuiet')]_vars

\* C35 as amended: every relocation conserves the files (each is left where it
\* was or moved to credentials/ under its name, none deleted, renamed or
\* overwritten), and a second run right after a run that ended without a
\* warning or exception moves nothing and returns null.
C35_RelocationConserves ==
  [][RelocationStep =>
       /\ Conserved
       /\ last'.res \notin {"warned", "exception"} => SecondRunQuiet']_vars

\* C35 witness: a relocation without warning has moved one file and left
\* another, whose name exists in credentials/, in cloudflared/.
C35_Witness ==
  /\ pc = "login" /\ log = <<"relocate">> /\ last.res # "warned"
  /\ runStart.rootFiles["uA.json"] # NoFile /\ runStart.credFiles["uA.json"] = NoFile
  /\ rootFiles["uA.json"] = NoFile /\ credFiles["uA.json"] = runStart.rootFiles["uA.json"]
  /\ rootFiles["uB.json"] # NoFile /\ credFiles["uB.json"] = runStart.credFiles["uB.json"]
  /\ credFiles["uB.json"] # NoFile

\* the registered tunnels whose credential file is in credentials/
Credentialed == {i \in 1..Len(registry) : checkFileExists(credFiles, FileNameOf(registry[i].id))}

\* C38: when Diagnose ends with exit code 0, config.yml was readable and
\* names a tunnel id, exactly one tunnel has local credentials, and the id
\* config.yml names is that tunnel's id.
C38_NoIssuesMeansReconciled ==
  (pc = "exit" /\ exitCode = 0) =>
    /\ diag.configTunnelId # NoId
    /\ config.tunnel = diag.configTunnelId
    /\ Cardinality(Credentialed) = 1
    /\ \A i \in Credentialed : registry[i].id = config.tunnel

\* the place of the first entry act in the log, 0 when there is none
Position(act) ==
  IF InLog(act) THEN CHOOSE i \in 1..Len(log) : log[i] = act /\ \A j \in 1..(i - 1) : log[j] # act
  ELSE 0

\* C39: in a full destroy the route deletion and the tunnel cleanup are
\* invoked before the tunnel deletion; the credential files and the
\* certificate are removed only by removeCredentials, which runs only after a
\* tunnel deletion that succeeded; after a failed deletion they are all as at
\* the start.
C39_TeardownOrdered ==
  /\ InLog("delete") =>
       /\ 0 < Position("route delete")
       /\ Position("route delete") < Position("cleanup")
       /\ Position("cleanup") < Position("delete")
  /\ InLog("remove-credentials") =>
       tunnelRemoved /\ Position("delete") < Position("remove-credentials")
  /\ (credFiles # runStart.credFiles \/ cert # runStart.cert) =>
       tunnelRemoved /\ InLog("remove-credentials")
  /\ (InLog("delete") /\ ~tunnelRemoved) =>
       /\ ~InLog("remove-credentials")
       /\ credFiles = runStart.credFiles /\ cert = runStart.cert

\* C39 witness: a full destroy has ended whose route deletion failed (the DNS
\* record is still there), whose tunnel deletion succeeded, and which then
\* removed the credential file and the certificate.
C39_Witness ==
  /\ pc = "exit" /\ fullCleanup(args) /\ tunnelRemoved /\ dnsRouted
  /\ runStart.credFiles["uA.json"] # NoFile /\ runStart.cert
  /\ Present(credFiles) = {} /\ ~cert
  /\ registry = <<>>

\* C40: the status summary says "Containers: stopped" only if the stop
\* command succeeded, and "Tunnel: removed" / "Configuration: removed" only if
\* the tunnel was deleted and the credential files and certificate removed in
\* the run.
C40_StatusTruthful ==
  status.printed =>
    /\ status.containers = "stopped" => stopSuccess
    /\ status.tunnel = "removed" => tunnelRemoved
    /\ status.configuration = "removed" =>
         (tunnelRemoved /\ Present(credFiles) = {} /\ ~cert)

====
